---- MODULE Spec2Model ----
(***************************************************************************)
(* custom::Vector<T> of DataStructuresC++/Vector.h, instantiated as the    *)
(* tests instantiate it (Vector<int>), over an explicit heap.              *)
(*                                                                         *)
(* A Vector object is the triple (mSize, capacity, data) of Vector.h       *)
(* l.756-758; data is a region id of the heap, or Null.  A region is what  *)
(* ::operator new returned: cap slots, each Raw (no object lives there) or *)
(* holding a value.  A store to data[i] with i >= cap leaves the region:   *)
(* it is undefined behaviour, modelled as a choice between the value       *)
(* landing behind the region, something else (Junk) being read back from   *)
(* there, and the process aborting on the damaged heap.  Loads behind the  *)
(* region return what the model holds there.                               *)
(***************************************************************************)
EXTENDS Integers, Sequences, FiniteSets, TLC

\* ---------------------------------------------------------------- bounds
\* push_back / emplace_back / push_back(list) run while the size stays <= MaxSize
MaxSize == 3
\* beside a second Vector or an iterator, push_back runs while the size stays <= MaxPairSize
MaxPairSize == 2
\* Vector(size_t capacity) is called with 0..MaxCapArg
MaxCapArg == 2
\* initializer lists hold 0..MaxList values
MaxList == 2
\* regions the heap can hold at once
NRegions == 4
\* operator[] is called with 0..MaxIndex
MaxIndex == 3
\* the list constructor alone is also run on lists of 0..MaxLongList values
MaxLongList == 10
\* the Vectors that are compared and added are constructed from lists of 0..MaxCompareList values
MaxCompareList == 1
\* an iterator is decremented while it is fewer than MaxBefore slots before its region
MaxBefore == 2
\* a walk from begin() to end() is followed for at most MaxWalk iterations
MaxWalk == 5
\* an iterator is advanced by -MaxDistance..MaxDistance slots and offset by 0..MaxDistance
MaxDistance == 3

\* the element values the operations are called with
Values == {1, 2}
\* the two Vector objects of a run; the single-Vector calls are made on "a"
Objs == {"a", "b"}

\* ------------------------------------------------------- program constants
\* nullptr (the default constructor's data)
Null == 0
\* a slot of ::operator new memory in which no object lives
Raw == 0
\* what a load behind a region may return instead of the value stored there
Junk == -1
\* capacity of a list-constructed Vector with fewer than 10 values
ListMinCap == 10
\* capacity grow() gives a Vector that holds no storage
GrowInitCap == 1

Regions == 1..NRegions

VARIABLES
    vec,      \* vec[x]: the object x: [alive, mSize, capacity, data]
    heap,     \* heap[r]: the region r: [st, cap, mem, ovf]
    aborted,  \* the process has ended (std::terminate, or abort on a damaged heap)
    hist,     \* hist[x]: [pure, vals]: x was default-constructed and has since only been
              \* pushed to with push_back(value), and the values pushed
    last,     \* the last call: [op, obj, src, arg, res, ret, faults, destroyed, lost, trace]
    it        \* the iterator object: [alive, reg, mPtr, mBegin, mEnd]; its three pointers are
              \* offsets (in slots) into the region reg they were taken from

vars == <<vec, heap, aborted, hist, last, it>>

\* ------------------------------------------------------------------ helpers
\* an object that is not constructed (before its constructor, after its destructor)
NoVec == [alive |-> FALSE, mSize |-> 0, capacity |-> 0, data |-> Null]
FreeRegion == [st |-> "free", cap |-> 0, mem |-> <<>>, ovf |-> FALSE]
NoHist == [pure |-> FALSE, vals |-> <<>>]
\* no iterator object exists
NoIter == [alive |-> FALSE, reg |-> Null, mPtr |-> 0, mBegin |-> 0, mEnd |-> 0]

\* ::operator new(n * sizeof(T)): a fresh region of n Raw slots; never nullptr, also for n = 0
FreeIds(h) == {r \in Regions : h[r].st = "free"}
NewId(h) == CHOOSE r \in FreeIds(h) : \A s \in FreeIds(h) : r <= s
OperatorNew(h, n) ==
    [h EXCEPT ![NewId(h)] = [st |-> "alloc", cap |-> n, mem |-> [i \in 1..n |-> Raw], ovf |-> FALSE]]

\* ::operator delete(p, ...): nothing for nullptr
OperatorDelete(h, p) == IF p = Null THEN h ELSE [h EXCEPT ![p] = FreeRegion]

\* the slots of region p as a sequence (slot i is mem[i+1]); nothing behind nullptr
MemOf(h, p) == IF p = Null THEN <<>> ELSE h[p].mem

\* data[i] as a load: behind everything the model holds, Junk
Load(h, p, i) == IF i < Len(MemOf(h, p)) THEN MemOf(h, p)[i + 1] ELSE Junk

\* mem with slot i set to val; a slot behind mem's end extends it
SetAt(mem, i, val) ==
    IF i < Len(mem) THEN [mem EXCEPT ![i + 1] = val]
    ELSE [k \in 1..(i + 1) |-> IF k <= Len(mem) THEN mem[k] ELSE IF k = i + 1 THEN val ELSE Junk]

\* mem without the Raw slots at its end that lie behind the region's cap slots
RECURSIVE Trim(_, _)
Trim(mem, cap) ==
    IF Len(mem) > cap /\ mem[Len(mem)] = Raw THEN Trim(SubSeq(mem, 1, Len(mem) - 1), cap)
    ELSE mem

(***************************************************************************)
(* A call runs on a machine m = [v, h, f, d, oob]: the object, the heap,   *)
(* the element-lifetime faults of the call ("assign_raw": a value assigned *)
(* to a slot no object lives in; "destroy_raw": a destructor run on such a *)
(* slot; "undestroyed": a region released with an object living in it),    *)
(* the slots it ran a destructor on, in order, and whether the call has    *)
(* stored behind a region or released a region that was stored behind.     *)
(* A sixth field t holds the steps of the call's latest reallocation, in   *)
(* the order they ran: "new" (the new region is allocated), "place" i      *)
(* (new_data[i] is assigned), "destroy" i (data[i].~T()), "delete" (the    *)
(* old region is released), "adopt" (data = new_data; capacity = ...).     *)
(***************************************************************************)

\* one step of a reallocation: what is done, and the slot or region it is done to
Step(e, k) == [e |-> e, k |-> k]

\* data[i] = val (constructed = FALSE) or new(&data[i]) T(val) (constructed = TRUE);
\* junk: what a store behind the region leaves there
Store(m, i, val, constructed, junk) ==
    LET p == m.v.data
        reg == m.h[p]
        inb == i < reg.cap
        was == Load(m.h, p, i)
        put == IF inb \/ ~junk THEN val ELSE Junk
        f2 == IF ~constructed /\ (was = Raw \/ i >= Len(reg.mem))
              THEN m.f \cup {"assign_raw"} ELSE m.f
    IN  [m EXCEPT !.h = [m.h EXCEPT ![p] = [reg EXCEPT !.mem = SetAt(reg.mem, i, put),
                                                     !.ovf = reg.ovf \/ ~inb]],
                  !.f = f2,
                  !.oob = m.oob \/ ~inb]

\* data[i].~T()
Destruct(m, i) ==
    LET p == m.v.data
        reg == m.h[p]
        was == Load(m.h, p, i)
        f2 == IF was = Raw THEN m.f \cup {"destroy_raw"} ELSE m.f
        mem2 == IF i < Len(reg.mem) THEN Trim([reg.mem EXCEPT ![i + 1] = Raw], reg.cap) ELSE reg.mem
    IN  [m EXCEPT !.h = [m.h EXCEPT ![p] = [reg EXCEPT !.mem = mem2]], !.f = f2, !.d = Append(m.d, i)]

\* ::operator delete(data, capacity * sizeof(T)) of the object's region
Release(m) ==
    [m EXCEPT !.h = OperatorDelete(m.h, m.v.data),
              !.f = IF \E k \in 1..Len(MemOf(m.h, m.v.data)) : MemOf(m.h, m.v.data)[k] # Raw
                    THEN m.f \cup {"undestroyed"} ELSE m.f,
              !.oob = m.oob \/ (m.v.data # Null /\ m.h[m.v.data].ovf)]

\* for (i = 0; i < mSize; ++i) { new_data[i] = std::move(data[i]); data[i].~T(); }
\* then delete the old region and adopt the new one (Vector.h l.778-785, 805-812, 824-831).
\* from: slots still to move, starting at i; J: the slots whose store behind the new region reads back Junk
RECURSIVE MoveLoop(_, _, _, _)
MoveLoop(m, np, i, J) ==
    IF i >= m.v.mSize THEN m
    ELSE LET val == Load(m.h, m.v.data, i)
             tgt == Store([m EXCEPT !.v.data = np, !.t = Append(m.t, Step("place", i))],
                          i, val, FALSE, i \in J)
             src == Destruct([tgt EXCEPT !.v.data = m.v.data, !.t = Append(tgt.t, Step("destroy", i))], i)
         IN  MoveLoop(src, np, i + 1, J)

\* a reallocation that leaves the old region allocated
Reallocate_KeepsOld(m, newcap, J) ==
    LET np == NewId(m.h)
        m1 == [m EXCEPT !.h = OperatorNew(m.h, newcap), !.t = <<Step("new", np)>>]
        m2 == MoveLoop(m1, np, 0, J)
    IN  [m2 EXCEPT !.v.data = np, !.v.capacity = newcap, !.t = Append(m2.t, Step("adopt", np))]

\* a reallocation that releases the old region before it relocates the elements
Reallocate_ReleasesFirst(m, newcap, J) ==
    LET np == NewId(m.h)
        m1 == [m EXCEPT !.h = OperatorNew(m.h, newcap), !.t = <<Step("new", np)>>]
        m2 == [Release(m1) EXCEPT !.t = Append(m1.t, Step("delete", m.v.data))]
        m3 == MoveLoop(m2, np, 0, J)
    IN  [m3 EXCEPT !.v.data = np, !.v.capacity = newcap, !.t = Append(m3.t, Step("adopt", np))]

\* the part grow(), init_grow() and shrink() share (Vector.h l.776-785, 803-812, 823-831)
Reallocate(m, newcap, J) ==
    LET np == NewId(m.h)
        m1 == [m EXCEPT !.h = OperatorNew(m.h, newcap), !.t = <<Step("new", np)>>]
        m2 == MoveLoop(m1, np, 0, J)
        m3 == [Release(m2) EXCEPT !.t = Append(m2.t, Step("delete", m.v.data))]
    IN  [m3 EXCEPT !.v.data = np, !.v.capacity = newcap, !.t = Append(m3.t, Step("adopt", np))]

\* "Default capacity is 10." (Vector.h l.298); grow(): "If the array is not initialised,
\* memory for an array with the default capacity of 10 is allocated." (Vector.h l.761)
DefaultCapacity == 10

\* grow()'s new capacity when the Vector holds storage (Vector.h l.775)
GrowCapacity(capacity) == capacity + capacity \div 2

\* Vector::grow (Vector.h l.768-786)
grow(m, J) ==
    IF m.v.data = Null
    THEN [m EXCEPT !.v.capacity = GrowInitCap,
                   !.v.data = NewId(m.h),
                   !.h = OperatorNew(m.h, GrowInitCap)]
    ELSE Reallocate(m, GrowCapacity(m.v.capacity), J)


\* Vector::init_grow (Vector.h l.796-813)
init_grow(m, cap, J) ==
    IF m.v.data = Null
    THEN [m EXCEPT !.v.capacity = cap,
                   !.v.data = NewId(m.h),
                   !.h = OperatorNew(m.h, cap)]
    ELSE Reallocate(m, cap, J)

\* a shrink() that halves the capacity
ShrinkCapacity_Halved(capacity) == capacity \div 2

\* shrink()'s new capacity (Vector.h l.822)
ShrinkCapacity(capacity) == capacity - capacity \div 2

\* Vector::shrink (Vector.h l.821-832)
shrink(m, J) == Reallocate(m, ShrinkCapacity(m.v.capacity), J)

\* Vector::clear (Vector.h l.739-743): destroys slots 0..mSize-1 in index order
RECURSIVE ClearLoop(_, _)
ClearLoop(m, i) == IF i >= m.v.mSize THEN m ELSE ClearLoop(Destruct(m, i), i + 1)

\* a clear() that does not reset the size
ClearOf_KeepsSize(m) == ClearLoop(m, 0)

ClearOf(m) == [ClearLoop(m, 0) EXCEPT !.v.mSize = 0]

\* if (mSize >= capacity) grow();  (Vector.h l.455, 472, 515)
NeedsGrow(v) == v.mSize >= v.capacity

\* the body of push_back (constructed = FALSE, l.454-475) and of emplace_back (TRUE, l.513-520)
PushOf(m, val, constructed, J, junk) ==
    LET m1 == IF NeedsGrow(m.v) THEN grow(m, J) ELSE m
        m2 == Store(m1, m1.v.mSize, val, constructed, junk)
    IN  [m2 EXCEPT !.v.mSize = m1.v.mSize + 1]

\* a push_back(list) that grows only when the values do not fit
ListNeedsGrow_Strict(v, n) == v.mSize + n > v.capacity

\* if (new_size >= capacity) init_grow(new_size + new_size / 2);  (Vector.h l.492-494)
ListNeedsGrow(v, n) == v.mSize + n >= v.capacity
ListGrowCapacity(new_size) == new_size + new_size \div 2

\* for (it = list.begin(); it != list.end(); ++it) data[mSize++] = std::move(*it);
RECURSIVE AppendLoop(_, _, _)
AppendLoop(m, list, k) ==
    IF k > Len(list) THEN m
    ELSE AppendLoop([Store(m, m.v.mSize, list[k], FALSE, FALSE) EXCEPT !.v.mSize = m.v.mSize + 1],
                    list, k + 1)

\* the body of push_back(std::initializer_list<T>) (Vector.h l.491-497)
PushListOf(m, list, J) ==
    LET new_size == m.v.mSize + Len(list)
        m1 == IF ListNeedsGrow(m.v, Len(list)) THEN init_grow(m, ListGrowCapacity(new_size), J) ELSE m
    IN  AppendLoop(m1, list, 1)

\* if (mSize < (capacity / 2)) shrink();  (Vector.h l.535)
NeedsShrink(v) == v.mSize < v.capacity \div 2

\* a pop_back that decrements after the destructor call: data[mSize--].~T()
PopOf_PostDecrement(m, J) ==
    LET m1 == Destruct(m, m.v.mSize)
        m2 == [m1 EXCEPT !.v.mSize = m.v.mSize - 1]
    IN  IF NeedsShrink(m2.v) THEN shrink(m2, J) ELSE m2

\* the non-throwing branch of pop_back (Vector.h l.534-536)
PopOf(m, J) ==
    LET m1 == Destruct(m, m.v.mSize - 1)
        m2 == [m1 EXCEPT !.v.mSize = m.v.mSize - 1]
    IN  IF NeedsShrink(m2.v) THEN shrink(m2, J) ELSE m2

\* capacity of Vector(std::initializer_list<T>) for a list of n values (Vector.h l.347-350)
ListCapacity(n) == IF n < ListMinCap THEN ListMinCap ELSE n + n \div 2

\* the copy loop of the copy constructor and of copy assignment:
\* for (i = 0; i < mSize; ++i) data[i] = other[i];  (Vector.h l.366-367, 393-394)
RECURSIVE CopyLoop(_, _, _)
CopyLoop(m, src, i) ==
    IF i >= m.v.mSize THEN m
    ELSE CopyLoop(Store(m, i, Load(m.h, src, i), FALSE, FALSE), src, i + 1)

\* other[i] throws for i >= other.capacity (Vector.h l.692-694); inside the noexcept
\* copy operations that is std::terminate
CopyThrows(other) == other.mSize > other.capacity

\* an operator[] that checks the index against the size
IndexOf_SizeBound(h, v, index) ==
    IF index >= 0 /\ index < v.mSize
    THEN [res |-> "ok", ret |-> <<Load(h, v.data, index)>>]
    ELSE [res |-> "invalid_argument", ret |-> <<>>]

\* T& operator[](const size_t& index) (Vector.h l.675-695): what the call gives
IndexOf(h, v, index) ==
    IF index >= 0 /\ index < v.capacity
    THEN [res |-> "ok", ret |-> <<Load(h, v.data, index)>>]
    ELSE [res |-> "invalid_argument", ret |-> <<>>]

\* return mSize == 0;  (Vector.h l.615-617)
EmptyOf(v) == v.mSize = 0

\* explicit operator bool: return mSize != 0;  (Vector.h l.627-629)
BoolOf(v) == v.mSize # 0

\* the loop of operator==: for (i = 0; i < mSize; ++i) if (data[i] != other.data[i]) return false;
RECURSIVE EqualsLoop(_, _, _, _)
EqualsLoop(h, v, other, i) ==
    IF i >= v.mSize THEN TRUE
    ELSE IF Load(h, v.data, i) # Load(h, other.data, i) THEN FALSE
    ELSE EqualsLoop(h, v, other, i + 1)

\* an operator== that also compares the capacities
EqualsOf_SameCapacity(h, v, other) ==
    IF v.mSize # other.mSize \/ v.capacity # other.capacity THEN FALSE ELSE EqualsLoop(h, v, other, 0)

\* bool operator==(const Vector<T>& other) const noexcept (Vector.h l.641-649)
EqualsOf(h, v, other) ==
    IF v.mSize # other.mSize THEN FALSE ELSE EqualsLoop(h, v, other, 0)

\* bool operator!=(const Vector<T>& other) const noexcept (Vector.h l.661-663)
NotEqualsOf(h, v, other) == ~EqualsOf(h, v, other)

\* ------------------------------------------------------------------ actions
Other(x) == CHOOSE y \in Objs : y # x

\* the initializer lists the operations are called with
Lists == UNION {[1..k -> Values] : k \in 0..MaxList}

\* slots a relocation of n elements into newcap slots stores behind the new region
Behind(n, newcap) == {i \in 0..(n - 1) : i >= newcap}

\* the live elements data[0..mSize-1] of a Vector, as loads
Elems(h, v) == [k \in 1..v.mSize |-> Load(h, v.data, k - 1)]

Machine(x) == [v |-> vec[x], h |-> heap, f |-> {}, d |-> <<>>, oob |-> FALSE, t |-> <<>>]

Call(op, x, y, arg, res, ret) ==
    [op |-> op, obj |-> x, src |-> y, arg |-> arg, res |-> res, ret |-> ret,
     faults |-> {}, destroyed |-> <<>>, lost |-> FALSE, trace |-> <<>>]

\* a call on the object x needs x inside its lifetime; a constructor, x outside it
Live(x) == ~aborted /\ vec[x].alive
Unborn(x) == ~aborted /\ ~vec[x].alive
\* x is the only Vector alive / no other Vector is alive
Solo(x) == ~vec[Other(x)].alive

\* the call returns with the new state, or (after a store behind a region, or the
\* release of a region that was stored behind) the process aborts instead
Return(nv, nh, nhist, rec, oob) ==
    \/ /\ vec' = nv /\ heap' = nh /\ hist' = nhist /\ last' = rec /\ aborted' = FALSE
       /\ UNCHANGED it
    \/ /\ oob
       /\ aborted' = TRUE
       /\ last' = [rec EXCEPT !.res = "abort", !.ret = <<>>]
       /\ UNCHANGED <<vec, heap, hist, it>>

\* the call returns from the machine m it ran on
ReturnOf(x, m, hx, rec) ==
    Return([vec EXCEPT ![x] = m.v], m.h, [hist EXCEPT ![x] = hx], [rec EXCEPT !.faults = m.f, !.destroyed = m.d, !.trace = m.t], m.oob)

\* the call throws, or returns a value: nothing changes
Unchanged(rec) ==
    /\ last' = rec
    /\ UNCHANGED <<vec, heap, aborted, hist, it>>

\* an exception leaves a noexcept function: std::terminate
Terminate(rec) ==
    /\ aborted' = TRUE
    /\ last' = [rec EXCEPT !.res = "abort", !.ret = <<>>]
    /\ UNCHANGED <<vec, heap, hist, it>>

\* Vector() (Vector.h l.317)
DefaultCtor(x) ==
    /\ Unborn(x)
    /\ Return([vec EXCEPT ![x] = [alive |-> TRUE, mSize |-> 0, capacity |-> 0, data |-> Null]],
              heap, [hist EXCEPT ![x] = [pure |-> TRUE, vals |-> <<>>]],
              Call("Vector()", x, "", <<>>, "ok", <<>>), FALSE)

\* explicit Vector(size_t capacity) (Vector.h l.328-331)
CapacityCtor(x, n) ==
    /\ Unborn(x)
    /\ Return([vec EXCEPT ![x] = [alive |-> TRUE, mSize |-> 0, capacity |-> n, data |-> NewId(heap)]],
              OperatorNew(heap, n), [hist EXCEPT ![x] = NoHist],
              Call("Vector(capacity)", x, "", <<n>>, "ok", <<>>), FALSE)

\* Vector(std::initializer_list<T> init) (Vector.h l.346-354)
ListCtor(x, init) ==
    /\ Unborn(x)
    /\ LET cap == ListCapacity(Len(init))
           m0 == [v |-> [alive |-> TRUE, mSize |-> 0, capacity |-> cap, data |-> NewId(heap)],
                  h |-> OperatorNew(heap, cap), f |-> {}, d |-> <<>>, oob |-> FALSE, t |-> <<>>]
           m1 == AppendLoop(m0, init, 1)
       IN  ReturnOf(x, m1, NoHist, Call("Vector(list)", x, "", init, "ok", <<>>))

\* what an assignment does with the destination's old contents (Vector.h l.385-389, 430-433):
\* if (mSize) { clear(); ::operator delete(data, ...); }
DropOld(m) == IF m.v.mSize # 0 THEN Release(ClearOf(m)) ELSE m

\* the assignment overwrites data without releasing it: the old region is lost
LosesRegion(v) == v.mSize = 0 /\ v.data # Null

\* a lost region can be named by nothing any more: the model forgets it
Forget(m) == IF LosesRegion(m.v) THEN [m EXCEPT !.h = OperatorDelete(m.h, m.v.data)] ELSE m

\* a copy constructor that takes over other's members without a new region
CopyCtor_Shallow(x, y) ==
    /\ Unborn(x)
    /\ vec[y].alive
    /\ Return([vec EXCEPT ![x] = vec[y]], heap, [hist EXCEPT ![x] = NoHist],
              Call("Vector(const&)", x, y, <<>>, "ok", <<>>), FALSE)

\* Vector(const Vector<T>& other) (Vector.h l.364-368)
CopyCtor(x, y) ==
    /\ Unborn(x)
    /\ vec[y].alive
    /\ LET rec == Call("Vector(const&)", x, y, <<>>, "ok", <<>>)
           m0 == [v |-> [alive |-> TRUE, mSize |-> vec[y].mSize, capacity |-> vec[y].capacity,
                         data |-> NewId(heap)],
                  h |-> OperatorNew(heap, vec[y].capacity), f |-> {}, d |-> <<>>, oob |-> FALSE, t |-> <<>>]
       IN  IF CopyThrows(vec[y]) THEN Terminate(rec)
           ELSE ReturnOf(x, CopyLoop(m0, vec[y].data, 0), NoHist, rec)

\* Vector<T>& operator=(const Vector<T>& other) (Vector.h l.383-397)
CopyAssign(x, y) ==
    /\ ~aborted
    /\ vec[x].alive /\ vec[y].alive
    /\ LET rec == [Call("operator=(const&)", x, y, <<>>, "ok", <<>>)
                      EXCEPT !.lost = x # y /\ LosesRegion(vec[x])]
           m1 == Forget(DropOld(Machine(x)))
           m2 == [m1 EXCEPT !.v = [alive |-> TRUE, mSize |-> vec[y].mSize, capacity |-> vec[y].capacity,
                                   data |-> NewId(m1.h)],
                            !.h = OperatorNew(m1.h, vec[y].capacity)]
       IN  IF x = y THEN Unchanged(rec)
           ELSE IF CopyThrows(vec[y]) THEN Terminate(rec)
           ELSE ReturnOf(x, CopyLoop(m2, vec[y].data, 0), NoHist, rec)

\* a move that leaves other its capacity
MovedFrom_NotReset == [alive |-> TRUE, mSize |-> 0, capacity |-> GrowInitCap, data |-> Null]

\* what a move leaves in other (Vector.h l.411-413, 437-439)
MovedFrom == [alive |-> TRUE, mSize |-> 0, capacity |-> 0, data |-> Null]

\* Vector(Vector<T>&& other) (Vector.h l.410-414)
MoveCtor(x, y) ==
    /\ Unborn(x)
    /\ vec[y].alive
    /\ Return([vec EXCEPT ![x] = vec[y], ![y] = MovedFrom], heap,
              [hist EXCEPT ![x] = NoHist, ![y] = NoHist],
              Call("Vector(&&)", x, y, <<>>, "ok", <<>>), FALSE)

\* Vector<T>& operator=(Vector<T>&& other) (Vector.h l.428-442)
MoveAssign(x, y) ==
    /\ ~aborted
    /\ vec[x].alive /\ vec[y].alive
    /\ LET rec == [Call("operator=(&&)", x, y, <<>>, "ok", <<>>)
                      EXCEPT !.lost = x # y /\ LosesRegion(vec[x])]
           m1 == Forget(DropOld(Machine(x)))
       IN  IF x = y THEN Unchanged(rec)
           ELSE Return([vec EXCEPT ![x] = vec[y], ![y] = MovedFrom], m1.h,
                       [hist EXCEPT ![x] = NoHist, ![y] = NoHist],
                       [rec EXCEPT !.faults = m1.f, !.destroyed = m1.d, !.trace = m1.t], m1.oob)

\* whether the store of push_back / emplace_back lands behind the region it stores to
StoresBehind(v) ==
    v.mSize >= (IF ~NeedsGrow(v) THEN v.capacity
                ELSE IF v.data = Null THEN GrowInitCap ELSE GrowCapacity(v.capacity))

\* void push_back(const T& value) / void push_back(T&& value) (Vector.h l.454-475)
push_back(x, value) ==
    /\ Live(x)
    /\ vec[x].mSize < MaxSize
    /\ \E J \in SUBSET Behind(vec[x].mSize, vec[x].capacity), junk \in {FALSE, StoresBehind(vec[x])} :
          ReturnOf(x, PushOf(Machine(x), value, FALSE, J, junk),
                   [pure |-> hist[x].pure,
                    vals |-> IF hist[x].pure THEN Append(hist[x].vals, value) ELSE <<>>],
                   Call("push_back", x, "", <<value>>, "ok", <<>>))

\* an emplace_back that returns the slot behind the new element: return data[++mSize]
emplace_back_ReturnsNext(x, value) ==
    /\ Live(x)
    /\ vec[x].mSize < MaxSize
    /\ \E J \in SUBSET Behind(vec[x].mSize, vec[x].capacity), junk \in {FALSE, StoresBehind(vec[x])} :
          LET m == PushOf(Machine(x), value, TRUE, J, junk)
          IN  ReturnOf(x, m, NoHist,
                       Call("emplace_back", x, "", <<value>>, "ok",
                            <<Load(m.h, m.v.data, m.v.mSize)>>))

\* T& emplace_back(Ts&&... args) (Vector.h l.513-520); returns data[mSize++]
emplace_back(x, value) ==
    /\ Live(x)
    /\ vec[x].mSize < MaxSize
    /\ \E J \in SUBSET Behind(vec[x].mSize, vec[x].capacity), junk \in {FALSE, StoresBehind(vec[x])} :
          LET m == PushOf(Machine(x), value, TRUE, J, junk)
          IN  ReturnOf(x, m, NoHist,
                       Call("emplace_back", x, "", <<value>>, "ok",
                            <<Load(m.h, m.v.data, m.v.mSize - 1)>>))

\* void push_back(std::initializer_list<T> list) (Vector.h l.491-497)
push_back_list(x, list) ==
    /\ Live(x)
    /\ vec[x].mSize + Len(list) <= MaxSize
    /\ \E J \in SUBSET Behind(vec[x].mSize, vec[x].capacity) :
          ReturnOf(x, PushListOf(Machine(x), list, J), NoHist,
                   Call("push_back(list)", x, "", list, "ok", <<>>))

\* a pop_back that returns silently on an empty Vector
pop_back_NoThrow(x) ==
    /\ Live(x)
    /\ IF vec[x].mSize # 0
       THEN ReturnOf(x, PopOf(Machine(x), {}), NoHist, Call("pop_back", x, "", <<>>, "ok", <<>>))
       ELSE Unchanged(Call("pop_back", x, "", <<>>, "ok", <<>>))

\* void pop_back() (Vector.h l.532-539)
pop_back(x) ==
    /\ Live(x)
    /\ IF vec[x].mSize # 0
       THEN ReturnOf(x, PopOf(Machine(x), {}), NoHist, Call("pop_back", x, "", <<>>, "ok", <<>>))
       ELSE Unchanged(Call("pop_back", x, "", <<>>, "runtime_error", <<>>))

\* return data[0];  (Vector.h l.551, 565)
FrontOf(h, v) == Load(h, v.data, 0)

\* a back() that reads one slot too far
BackOf_OnePast(h, v) == Load(h, v.data, v.mSize)

\* return data[mSize - 1];  (Vector.h l.579, 593)
BackOf(h, v) == Load(h, v.data, v.mSize - 1)

\* T& front() / const T& front() const (Vector.h l.549-567)
front(x) ==
    /\ Live(x)
    /\ IF vec[x].mSize # 0
       THEN Unchanged(Call("front", x, "", <<>>, "ok", <<FrontOf(heap, vec[x])>>))
       ELSE Unchanged(Call("front", x, "", <<>>, "runtime_error", <<>>))

\* T& back() / const T& back() const (Vector.h l.577-595)
back(x) ==
    /\ Live(x)
    /\ IF vec[x].mSize # 0
       THEN Unchanged(Call("back", x, "", <<>>, "ok", <<BackOf(heap, vec[x])>>))
       ELSE Unchanged(Call("back", x, "", <<>>, "runtime_error", <<>>))

\* v[index] read: T& operator[](const size_t&) / const T& operator[](const size_t&) const
\* (Vector.h l.675-695)
index(x, i) ==
    /\ Live(x)
    /\ LET r == IndexOf(heap, vec[x], i)
       IN  Unchanged(Call("operator[]", x, "", <<i>>, r.res, r.ret))

\* v[index] = value: a store through the reference operator[] returned (Vector.h l.675-679).
\* The calls made store to live elements (index < mSize) or fail the index check.
index_write(x, i, value) ==
    /\ Live(x)
    /\ LET r == IndexOf(heap, vec[x], i)
           rec == Call("operator[]=", x, "", <<i, value>>, r.res, <<>>)
           m == Machine(x)
       IN  IF r.res # "ok" THEN Unchanged(rec)
           ELSE /\ i < vec[x].mSize
                /\ ReturnOf(x, [m EXCEPT !.h[m.v.data].mem[i + 1] = value], NoHist, rec)

\* bool empty() const noexcept (Vector.h l.615-617)
empty(x) ==
    /\ Live(x)
    /\ Unchanged(Call("empty", x, "", <<>>, "ok", <<EmptyOf(vec[x])>>))

\* explicit operator bool() const noexcept (Vector.h l.627-629)
to_bool(x) ==
    /\ Live(x)
    /\ Unchanged(Call("operator bool", x, "", <<>>, "ok", <<BoolOf(vec[x])>>))

\* a == b (Vector.h l.641-649)
equals(x, y) ==
    /\ Live(x) /\ Live(y)
    /\ Unchanged(Call("operator==", x, y, <<>>, "ok", <<EqualsOf(heap, vec[x], vec[y])>>))

\* a != b (Vector.h l.661-663)
not_equals(x, y) ==
    /\ Live(x) /\ Live(y)
    /\ Unchanged(Call("operator!=", x, y, <<>>, "ok", <<NotEqualsOf(heap, vec[x], vec[y])>>))

\* Vector<T> res(*this) inside operator+ (Vector.h l.708, 713): the copy constructor
\* (l.364-368) run for a temporary, on the heap h
CopyOf(h, other) ==
    CopyLoop([v |-> [alive |-> TRUE, mSize |-> other.mSize, capacity |-> other.capacity, data |-> NewId(h)],
              h |-> OperatorNew(h, other.capacity), f |-> {}, d |-> <<>>, oob |-> FALSE, t |-> <<>>],
             other.data, 0)

\* for (i = 0; i < right.mSize; ++i) res.push_back(right[i]);  (Vector.h l.709-710)
\* junk: whether the stores the pushes make behind a region read back Junk
RECURSIVE PlusLoop(_, _, _, _)
PlusLoop(m, right, i, junk) ==
    IF i >= right.mSize THEN m
    ELSE PlusLoop(PushOf(m, Load(m.h, right.data, i), FALSE, IF junk THEN 0..m.v.mSize ELSE {}, junk),
                  right, i + 1, junk)

\* the copy constructor's other[i] or the loop's right[i] throws inside the noexcept operator+
PlusThrows(v, right) == CopyThrows(v) \/ (right.mSize # 0 /\ right.mSize > right.capacity)

\* a + b: Vector<T> operator+(const Vector<T>& right) const noexcept (Vector.h l.706-714).
\* The call gives the Vector it returns as [mSize, capacity, elems]; the returned temporary
\* is destroyed (l.750-753) when the expression ends.
plus(x, y) ==
    /\ Live(x) /\ Live(y)
    /\ \E junk \in BOOLEAN :
          LET rec == Call("operator+", x, y, <<>>, "ok", <<>>)
              m1 == CopyOf(heap, vec[x])
              m2 == IF vec[y].mSize # 0 THEN PlusLoop(m1, vec[y], 0, junk) ELSE m1
              res == [mSize |-> m2.v.mSize, capacity |-> m2.v.capacity, elems |-> Elems(m2.h, m2.v)]
              m3 == Release(ClearOf(m2))
          IN  IF PlusThrows(vec[x], vec[y]) THEN Terminate(rec)
              ELSE Return(vec, m3.h, hist,
                          [rec EXCEPT !.ret = <<res>>, !.faults = m3.f, !.destroyed = m3.d, !.trace = m3.t], m3.oob)

\* void clear() (Vector.h l.739-743)
clear(x) ==
    /\ Live(x)
    /\ ReturnOf(x, ClearOf(Machine(x)), NoHist, Call("clear", x, "", <<>>, "ok", <<>>))

\* ------------------------------------------------------------ VectorIterator
\* if (mPtr != mEnd)  (Vector.h l.91, 105)
IterNotAtEnd(i) == i.mPtr # i.mEnd

\* if (mPtr != mBegin)  (Vector.h l.120, 134)
IterNotAtBegin(i) == i.mPtr # i.mBegin

\* an operator* that checks the end bound only
Dereferenceable_EndOnly(i) == i.mPtr # i.mEnd

\* if (mPtr != mEnd && mPtr != (mBegin-1))  (Vector.h l.264)
Dereferenceable(i) == i.mPtr # i.mEnd /\ i.mPtr # i.mBegin - 1

\* the iterator points into a region that is allocated, at one of its slots
PointsIntoRegion(h, i) ==
    i.reg # Null /\ h[i.reg].st = "alloc" /\ i.mPtr >= 0 /\ i.mPtr < Len(h[i.reg].mem)

\* what reading *mPtr can give: the slot's content; outside every allocated region
\* (a released region, a slot before or behind a region) any value or Junk
PointeeValues(h, i) ==
    IF PointsIntoRegion(h, i) THEN {Load(h, i.reg, i.mPtr)} ELSE Values \cup {Junk}

\* an iterator call returns: only the iterator and the call record change
IterReturn(newit, rec) ==
    /\ it' = newit
    /\ last' = rec
    /\ UNCHANGED <<vec, heap, aborted, hist>>

\* a prefix increment that moves also at the end bound
pre_inc_Unchecked ==
    /\ ~aborted /\ it.alive
    /\ IterReturn([it EXCEPT !.mPtr = it.mPtr + 1],
                  Call("++it", "it", "", <<>>, "ok", <<[it EXCEPT !.mPtr = it.mPtr + 1]>>))

\* VectorIterator() (Vector.h l.27)
IterDefaultCtor ==
    /\ ~aborted
    /\ IterReturn([alive |-> TRUE, reg |-> Null, mPtr |-> 0, mBegin |-> 0, mEnd |-> 0],
                  Call("VectorIterator()", "it", "", <<>>, "ok", <<>>))

\* VectorIterator(DataType* ptr, DataType* begin, DataType* end) (Vector.h l.35), called
\* with the bounds of x's elements and a position from one before them to their end
IterCtor(x, ptr) ==
    /\ Live(x)
    /\ vec[x].data # Null
    /\ ptr >= -1 /\ ptr <= vec[x].mSize
    /\ IterReturn([alive |-> TRUE, reg |-> vec[x].data, mPtr |-> ptr, mBegin |-> 0, mEnd |-> vec[x].mSize],
                  Call("VectorIterator(ptr, begin, end)", "it", x, <<ptr>>, "ok", <<>>))

\* it = v.begin(): Iterator(data, data, &data[mSize]) (Vector.h l.721-723)
begin(x) ==
    /\ Live(x)
    /\ IterReturn([alive |-> TRUE, reg |-> vec[x].data, mPtr |-> 0, mBegin |-> 0, mEnd |-> vec[x].mSize],
                  Call("begin", "it", x, <<>>, "ok", <<>>))

\* it = v.end(): Iterator(&data[mSize], data, &data[mSize]) (Vector.h l.730-732)
end(x) ==
    /\ Live(x)
    /\ IterReturn([alive |-> TRUE, reg |-> vec[x].data, mPtr |-> vec[x].mSize, mBegin |-> 0,
                   mEnd |-> vec[x].mSize],
                  Call("end", "it", x, <<>>, "ok", <<>>))

\* ++it: VectorIterator& operator++() (Vector.h l.90-96); returns *this
pre_inc ==
    /\ ~aborted /\ it.alive
    /\ IF IterNotAtEnd(it)
       THEN IterReturn([it EXCEPT !.mPtr = it.mPtr + 1],
                       Call("++it", "it", "", <<>>, "ok", <<[it EXCEPT !.mPtr = it.mPtr + 1]>>))
       ELSE IterReturn(it, Call("++it", "it", "", <<>>, "out_of_range", <<>>))

\* a postfix increment that returns the receiver after the move, as the prefix one does
post_inc_ReturnsMoved ==
    /\ ~aborted /\ it.alive
    /\ IF IterNotAtEnd(it)
       THEN IterReturn([it EXCEPT !.mPtr = it.mPtr + 1],
                       Call("it++", "it", "", <<>>, "ok", <<[it EXCEPT !.mPtr = it.mPtr + 1]>>))
       ELSE IterReturn(it, Call("it++", "it", "", <<>>, "out_of_range", <<>>))

\* it++: const VectorIterator operator++(int) (Vector.h l.104-111); returns the copy temp
post_inc ==
    /\ ~aborted /\ it.alive
    /\ IF IterNotAtEnd(it)
       THEN IterReturn([it EXCEPT !.mPtr = it.mPtr + 1], Call("it++", "it", "", <<>>, "ok", <<it>>))
       ELSE IterReturn(it, Call("it++", "it", "", <<>>, "out_of_range", <<>>))

\* a prefix decrement that moves also at the begin bound
pre_dec_Unchecked ==
    /\ ~aborted /\ it.alive
    /\ it.mPtr > -MaxBefore
    /\ IterReturn([it EXCEPT !.mPtr = it.mPtr - 1],
                  Call("--it", "it", "", <<>>, "ok", <<[it EXCEPT !.mPtr = it.mPtr - 1]>>))

\* --it: VectorIterator& operator--() (Vector.h l.119-125); returns *this
pre_dec ==
    /\ ~aborted /\ it.alive
    /\ it.mPtr > -MaxBefore
    /\ IF IterNotAtBegin(it)
       THEN IterReturn([it EXCEPT !.mPtr = it.mPtr - 1],
                       Call("--it", "it", "", <<>>, "ok", <<[it EXCEPT !.mPtr = it.mPtr - 1]>>))
       ELSE IterReturn(it, Call("--it", "it", "", <<>>, "out_of_range", <<>>))

\* it--: const VectorIterator operator--(int) (Vector.h l.133-140); returns the copy temp
post_dec ==
    /\ ~aborted /\ it.alive
    /\ it.mPtr > -MaxBefore
    /\ IF IterNotAtBegin(it)
       THEN IterReturn([it EXCEPT !.mPtr = it.mPtr - 1], Call("it--", "it", "", <<>>, "ok", <<it>>))
       ELSE IterReturn(it, Call("it--", "it", "", <<>>, "out_of_range", <<>>))

\* *it: DataType& operator*() const (Vector.h l.263-267), and the read of what it returns.
\* A read outside every allocated region is undefined: it gives some value, or the
\* process aborts.
deref ==
    /\ ~aborted /\ it.alive
    /\ IF Dereferenceable(it)
       THEN \/ \E val \in PointeeValues(heap, it) :
                  IterReturn(it, Call("operator*", "it", "", <<>>, "ok", <<val>>))
            \/ /\ ~PointsIntoRegion(heap, it)
               /\ Terminate(Call("operator*", "it", "", <<>>, "abort", <<>>))
       ELSE IterReturn(it, Call("operator*", "it", "", <<>>, "runtime_error", <<>>))

\* the loop of advance for a distance above zero (Vector.h l.152-156): ++*this while the
\* end bound is not reached and steps remain
RECURSIVE AdvanceForward(_, _, _)
AdvanceForward(i, moved, distance) ==
    IF IterNotAtEnd(i) /\ moved < distance
    THEN AdvanceForward([i EXCEPT !.mPtr = i.mPtr + 1], moved + 1, distance)
    ELSE [it |-> i, moved |-> moved]

\* the loop of advance for any other distance (Vector.h l.157-161): --*this while the
\* begin bound is not reached and steps remain
RECURSIVE AdvanceBackward(_, _, _)
AdvanceBackward(i, moved, distance) ==
    IF IterNotAtBegin(i) /\ moved > distance
    THEN AdvanceBackward([i EXCEPT !.mPtr = i.mPtr - 1], moved - 1, distance)
    ELSE [it |-> i, moved |-> moved]

\* an advance that stops at the bound it meets and reports no error
AdvanceOf_Clamped(i, distance) ==
    IF Dereferenceable(i)
    THEN LET w == IF distance > 0 THEN AdvanceForward(i, 0, distance)
                  ELSE AdvanceBackward(i, 0, distance)
         IN  [it |-> w.it, res |-> "ok"]
    ELSE [it |-> i, res |-> "runtime_error"]

\* an advance that refuses only the position one slot before the begin bound, so that it
\* walks back from the end bound
AdvanceOf_FromEnd(i, distance) ==
    IF i.mPtr # i.mBegin - 1
    THEN LET w == IF distance > 0 THEN AdvanceForward(i, 0, distance)
                  ELSE AdvanceBackward(i, 0, distance)
         IN  [it |-> w.it, res |-> IF w.moved # distance THEN "invalid_argument" ELSE "ok"]
    ELSE [it |-> i, res |-> "runtime_error"]

\* an advance that reports an unmet distance as the stepping operators do
AdvanceOf_OutOfRange(i, distance) ==
    IF Dereferenceable(i)
    THEN LET w == IF distance > 0 THEN AdvanceForward(i, 0, distance)
                  ELSE AdvanceBackward(i, 0, distance)
         IN  [it |-> w.it, res |-> IF w.moved # distance THEN "out_of_range" ELSE "ok"]
    ELSE [it |-> i, res |-> "runtime_error"]

\* VectorIterator& advance(const int& distance) (Vector.h l.149-168): the iterator it
\* leaves and how it ends
AdvanceOf(i, distance) ==
    IF Dereferenceable(i)
    THEN LET w == IF distance > 0 THEN AdvanceForward(i, 0, distance)
                  ELSE AdvanceBackward(i, 0, distance)
         IN  [it |-> w.it, res |-> IF w.moved # distance THEN "invalid_argument" ELSE "ok"]
    ELSE [it |-> i, res |-> "runtime_error"]

\* it.advance(distance); returns *this
advance(distance) ==
    /\ ~aborted /\ it.alive
    /\ it.mPtr > -MaxBefore
    /\ LET r == AdvanceOf(it, distance)
       IN  IterReturn(r.it, Call("advance", "it", "", <<distance>>, r.res,
                                 IF r.res = "ok" THEN <<r.it>> ELSE <<>>))

\* the loop of operator+ and of operator+= (Vector.h l.179-182, 196-199): ++mPtr while
\* the end bound is not reached and steps remain
RECURSIVE PlusSteps(_, _, _)
PlusSteps(i, moved, amount) ==
    IF i.mPtr # i.mEnd /\ moved < amount
    THEN PlusSteps([i EXCEPT !.mPtr = i.mPtr + 1], moved + 1, amount)
    ELSE [it |-> i, moved |-> moved]

\* the loop of operator- and of operator-= (Vector.h l.214-217, 231-234): --mPtr while
\* the begin bound is not reached and steps remain
RECURSIVE MinusSteps(_, _, _)
MinusSteps(i, moved, amount) ==
    IF i.mPtr # i.mBegin /\ moved < amount
    THEN MinusSteps([i EXCEPT !.mPtr = i.mPtr - 1], moved + 1, amount)
    ELSE [it |-> i, moved |-> moved]

\* an operator+ that moves the receiver, as operator+= does
iter_plus_InPlace(amount) ==
    /\ ~aborted /\ it.alive
    /\ LET w == PlusSteps(it, 0, amount)
       IN  IF w.moved = amount
           THEN IterReturn(w.it, Call("it+n", "it", "", <<amount>>, "ok", <<w.it>>))
           ELSE IterReturn(w.it, Call("it+n", "it", "", <<amount>>, "out_of_range", <<>>))

\* it + amount: VectorIterator operator+(const size_t& amount) (Vector.h l.176-186); the
\* loop runs on the copy result, which is returned
iter_plus(amount) ==
    /\ ~aborted /\ it.alive
    /\ LET w == PlusSteps(it, 0, amount)
       IN  IF w.moved = amount
           THEN IterReturn(it, Call("it+n", "it", "", <<amount>>, "ok", <<w.it>>))
           ELSE IterReturn(it, Call("it+n", "it", "", <<amount>>, "out_of_range", <<>>))

\* an operator+= that rewinds the receiver to its begin bound when it fails
plus_assign_Rewinds(amount) ==
    /\ ~aborted /\ it.alive
    /\ LET w == PlusSteps(it, 0, amount)
       IN  IF w.moved = amount
           THEN IterReturn(w.it, Call("it+=n", "it", "", <<amount>>, "ok", <<w.it>>))
           ELSE IterReturn([it EXCEPT !.mPtr = it.mBegin],
                           Call("it+=n", "it", "", <<amount>>, "out_of_range", <<>>))

\* it += amount: VectorIterator& operator+=(const size_t& amount) (Vector.h l.194-203); the
\* loop runs on the receiver; returns *this
plus_assign(amount) ==
    /\ ~aborted /\ it.alive
    /\ LET w == PlusSteps(it, 0, amount)
       IN  IF w.moved = amount
           THEN IterReturn(w.it, Call("it+=n", "it", "", <<amount>>, "ok", <<w.it>>))
           ELSE IterReturn(w.it, Call("it+=n", "it", "", <<amount>>, "out_of_range", <<>>))

\* it - amount: VectorIterator operator-(const size_t& amount) (Vector.h l.211-221); the
\* loop runs on the copy result, which is returned
iter_minus(amount) ==
    /\ ~aborted /\ it.alive
    /\ it.mPtr > -MaxBefore
    /\ LET w == MinusSteps(it, 0, amount)
       IN  IF w.moved = amount
           THEN IterReturn(it, Call("it-n", "it", "", <<amount>>, "ok", <<w.it>>))
           ELSE IterReturn(it, Call("it-n", "it", "", <<amount>>, "out_of_range", <<>>))

\* an operator-= whose loop runs on a copy, as that of operator- does
minus_assign_OnCopy(amount) ==
    /\ ~aborted /\ it.alive
    /\ it.mPtr > -MaxBefore
    /\ LET w == MinusSteps(it, 0, amount)
       IN  IF w.moved = amount
           THEN IterReturn(it, Call("it-=n", "it", "", <<amount>>, "ok", <<w.it>>))
           ELSE IterReturn(it, Call("it-=n", "it", "", <<amount>>, "out_of_range", <<>>))

\* it -= amount: VectorIterator& operator-=(const size_t& amount) (Vector.h l.229-238); the
\* loop runs on the receiver; returns *this
minus_assign(amount) ==
    /\ ~aborted /\ it.alive
    /\ it.mPtr > -MaxBefore
    /\ LET w == MinusSteps(it, 0, amount)
       IN  IF w.moved = amount
           THEN IterReturn(w.it, Call("it-=n", "it", "", <<amount>>, "ok", <<w.it>>))
           ELSE IterReturn(w.it, Call("it-=n", "it", "", <<amount>>, "out_of_range", <<>>))

\* bool operator!=(const VectorIterator& other) const noexcept: return mPtr != other.mPtr;
\* (Vector.h l.254-256); two pointers are equal when they name the same slot
IterNotEquals(i, other) == i.reg # other.reg \/ i.mPtr # other.mPtr

\* what begin() returns: Iterator(data, data, &data[mSize]) (Vector.h l.721-723)
BeginOf(v) == [alive |-> TRUE, reg |-> v.data, mPtr |-> 0, mBegin |-> 0, mEnd |-> v.mSize]

\* an end() at the end of the storage: Iterator(&data[capacity], data, &data[capacity])
EndOf_Capacity(v) ==
    [alive |-> TRUE, reg |-> v.data, mPtr |-> v.capacity, mBegin |-> 0, mEnd |-> v.capacity]

\* what end() returns: Iterator(&data[mSize], data, &data[mSize]) (Vector.h l.730-732)
EndOf(v) == [alive |-> TRUE, reg |-> v.data, mPtr |-> v.mSize, mBegin |-> 0, mEnd |-> v.mSize]

\* the loop of for (const int& i : vector) (Vector_Tests.cpp l.83-85) from the iterator i:
\* while (i != e) { yield *i; ++i; }, with operator!= , operator* and operator++ as the
\* iterator defines them; steps bounds the number of iterations that are followed
RECURSIVE WalkLoop(_, _, _, _, _)
WalkLoop(h, i, e, out, steps) ==
    IF ~IterNotEquals(i, e) THEN [res |-> "ok", out |-> out]
    ELSE IF steps = 0 THEN [res |-> "running", out |-> out]
    ELSE IF ~Dereferenceable(i) THEN [res |-> "runtime_error", out |-> out]
    ELSE IF ~IterNotAtEnd(i) THEN [res |-> "out_of_range", out |-> out]
    ELSE WalkLoop(h, [i EXCEPT !.mPtr = i.mPtr + 1], e, Append(out, Load(h, i.reg, i.mPtr)),
                  steps - 1)

\* for (const int& i : x) ...: the walk from x.begin() to x.end(); the call record holds
\* the values the walk yielded, in the order it yielded them
walk(x) ==
    /\ Live(x)
    /\ LET w == WalkLoop(heap, BeginOf(vec[x]), EndOf(vec[x]), <<>>, MaxWalk)
       IN  Unchanged(Call("walk", x, "", <<>>, w.res, <<w.out>>))

\* ~Vector() (Vector.h l.750-753)
Dtor(x) ==
    /\ ~aborted
    /\ vec[x].alive
    /\ LET m == Release(ClearOf(Machine(x)))
       IN  ReturnOf(x, [m EXCEPT !.v = NoVec], NoHist, Call("~Vector", x, "", <<>>, "ok", <<>>))

Init ==
    /\ vec = [x \in Objs |-> NoVec]
    /\ heap = [r \in Regions |-> FreeRegion]
    /\ aborted = FALSE
    /\ hist = [x \in Objs |-> NoHist]
    /\ last = Call("start", "", "", <<>>, "ok", <<>>)
    /\ it = NoIter

Next ==
    \/ Solo("a") /\ DefaultCtor("a")
    \/ \E n \in 0..MaxCapArg : Solo("a") /\ CapacityCtor("a", n)
    \/ \E init \in Lists : Solo("a") /\ ListCtor("a", init)
    \/ \E x \in Objs : CopyCtor(x, Other(x))
    \/ \E x \in Objs : MoveCtor(x, Other(x))
    \/ \E x \in Objs, y \in Objs : CopyAssign(x, y)
    \/ \E x \in Objs, y \in Objs : MoveAssign(x, y)
    \/ \E value \in Values : Solo("a") /\ push_back("a", value)
    \/ \E value \in Values : Solo("a") /\ emplace_back("a", value)
    \/ \E list \in Lists : Solo("a") /\ push_back_list("a", list)
    \/ Solo("a") /\ pop_back("a")
    \/ Solo("a") /\ front("a")
    \/ Solo("a") /\ back("a")
    \/ Solo("a") /\ clear("a")
    \/ Solo("a") /\ empty("a")
    \/ Solo("a") /\ to_bool("a")
    \/ \E i \in 0..MaxIndex : Solo("a") /\ index("a", i)
    \/ \E i \in 0..MaxIndex, value \in Values : Solo("a") /\ index_write("a", i, value)
    \/ \E x \in Objs : Dtor(x)

Spec == Init /\ [][Next]_vars

\* the list constructor on lists around the 10-slot minimum: construct, destroy, repeat
LongLists == UNION {[1..k -> Values] : k \in 0..MaxLongList}

ListNext ==
    \/ \E init \in LongLists : Solo("a") /\ ListCtor("a", init)
    \/ Dtor("a")

ListSpec == Init /\ [][ListNext]_vars

\* one Vector and one iterator: the Vector is built and changed, the iterator is taken
\* from it (or built over its elements), moved and dereferenced
IterNext ==
    \/ Solo("a") /\ DefaultCtor("a")
    \/ \E init \in Lists : Solo("a") /\ ListCtor("a", init)
    \/ \E value \in Values : vec["a"].mSize < MaxPairSize /\ push_back("a", value)
    \/ pop_back("a")
    \/ clear("a")
    \/ Dtor("a")
    \/ IterDefaultCtor
    \/ \E ptr \in (-1)..MaxPairSize : IterCtor("a", ptr)
    \/ begin("a")
    \/ end("a")
    \/ pre_inc
    \/ post_inc
    \/ pre_dec
    \/ post_dec
    \/ deref
    \/ walk("a")

IterSpec == Init /\ [][IterNext]_vars

\* one Vector and one iterator: the Vector is built from a list, read and popped; the
\* iterator is taken from it (or built over its elements), stepped, advanced and offset
OffsetNext ==
    \/ Solo("a") /\ DefaultCtor("a")
    \/ \E init \in Lists : Solo("a") /\ ListCtor("a", init)
    \/ pop_back("a")
    \/ front("a")
    \/ back("a")
    \/ \E i \in 0..MaxIndex : index("a", i)
    \/ Dtor("a")
    \/ \E ptr \in (-1)..MaxPairSize : IterCtor("a", ptr)
    \/ begin("a")
    \/ end("a")
    \/ pre_inc
    \/ post_inc
    \/ pre_dec
    \/ post_dec
    \/ \E distance \in (-MaxDistance)..MaxDistance : advance(distance)
    \/ \E amount \in 0..MaxDistance : iter_plus(amount)
    \/ \E amount \in 0..MaxDistance : plus_assign(amount)
    \/ \E amount \in 0..MaxDistance : iter_minus(amount)
    \/ \E amount \in 0..MaxDistance : minus_assign(amount)

OffsetSpec == Init /\ [][OffsetNext]_vars

\* one Vector and one iterator that is only ever taken from it with begin() or end(), and
\* then stepped, advanced, offset and dereferenced
BeginEndNext ==
    \/ Solo("a") /\ DefaultCtor("a")
    \/ \E init \in Lists : Solo("a") /\ ListCtor("a", init)
    \/ Dtor("a")
    \/ begin("a")
    \/ end("a")
    \/ pre_inc
    \/ post_inc
    \/ pre_dec
    \/ post_dec
    \/ deref
    \/ \E distance \in (-MaxDistance)..MaxDistance : advance(distance)
    \/ \E amount \in 0..MaxDistance : iter_plus(amount)
    \/ \E amount \in 0..MaxDistance : plus_assign(amount)
    \/ \E amount \in 0..MaxDistance : iter_minus(amount)
    \/ \E amount \in 0..MaxDistance : minus_assign(amount)

BeginEndSpec == Init /\ [][BeginEndNext]_vars

\* one Vector and one iterator: the Vector is built with a small capacity or from a list
\* (capacity 10) and changed by
\* every operation that can reallocate it, the iterator is taken from it before or after
DangleNext ==
    \/ \E n \in 0..MaxCapArg : Solo("a") /\ CapacityCtor("a", n)
    \/ \E init \in Lists : Solo("a") /\ ListCtor("a", init)
    \/ \E value \in Values : vec["a"].mSize < MaxPairSize /\ push_back("a", value)
    \/ \E value \in Values : vec["a"].mSize < MaxPairSize /\ emplace_back("a", value)
    \/ \E list \in Lists : vec["a"].mSize + Len(list) <= MaxPairSize /\ push_back_list("a", list)
    \/ pop_back("a")
    \/ clear("a")
    \/ begin("a")
    \/ end("a")
    \/ pre_inc
    \/ pre_dec
    \/ deref

DangleSpec == Init /\ [][DangleNext]_vars

\* two Vectors side by side: "a" is built alone, "b" is copied or moved from it and
\* changed while "a" is alive
PairNext ==
    \/ Solo("a") /\ DefaultCtor("a")
    \/ \E init \in Lists : Solo("a") /\ ListCtor("a", init)
    \/ \E value \in Values : Solo("a") /\ vec["a"].mSize < MaxPairSize /\ push_back("a", value)
    \/ CopyCtor("b", "a")
    \/ MoveCtor("b", "a")
    \/ \E y \in Objs : CopyAssign("b", y)
    \/ \E y \in Objs : MoveAssign("b", y)
    \/ \E value \in Values : vec["b"].mSize < MaxPairSize /\ push_back("b", value)
    \/ pop_back("b")
    \/ clear("b")
    \/ \E i \in 0..MaxIndex, value \in Values : index_write("b", i, value)
    \/ \E x \in Objs : Dtor(x)

PairSpec == Init /\ [][PairNext]_vars

\* two Vectors, "a" default-constructed or built from a list and "b" built from a list,
\* both pushed to, compared with each other and added
CompareLists == UNION {[1..k -> Values] : k \in 0..MaxCompareList}

CompareNext ==
    \/ DefaultCtor("a")
    \/ \E x \in Objs, init \in CompareLists : ListCtor(x, init)
    \/ \E x \in Objs, value \in Values : vec[x].mSize < MaxPairSize /\ push_back(x, value)
    \/ \E x \in Objs : equals(x, Other(x))
    \/ \E x \in Objs : not_equals(x, Other(x))
    \/ \E x \in Objs : plus(x, Other(x))

CompareSpec == Init /\ [][CompareNext]_vars

\* ------------------------------------------------------------- sanity
TypeOK ==
    /\ \A x \in Objs : vec[x].data \in {Null} \cup Regions
    /\ \A x \in Objs : vec[x].data # Null => heap[vec[x].data].st = "alloc"
    /\ \A x \in Objs : vec[x].mSize <= Len(MemOf(heap, vec[x].data))
    /\ \A x \in Objs : ~vec[x].alive => vec[x] = NoVec

\* ------------------------------------------------------------------ claims
\* the object the last call of a step was made on
Callee == last'.obj

\* C1: after every operation on a Vector created by any constructor, 0 <= size <= capacity
C1_SizeWithinCapacity ==
    \A x \in Objs : vec[x].alive => (0 <= vec[x].mSize /\ vec[x].mSize <= vec[x].capacity)

\* C2: N values pushed one at a time with push_back into a default-constructed Vector give
\* size() == N, and operator[](i) returns the i-th pushed value for every i in [0, N)
C2_PushedValuesReadBack ==
    \A x \in Objs :
        (vec[x].alive /\ hist[x].pure) =>
            /\ vec[x].mSize = Len(hist[x].vals)
            /\ \A i \in 0..(Len(hist[x].vals) - 1) :
                  IndexOf(heap, vec[x], i) = [res |-> "ok", ret |-> <<hist[x].vals[i + 1]>>]

\* C3: every call of grow() (made by push_back or emplace_back when size >= capacity)
\* leaves capacity strictly greater than it was before the call
C3_GrowRaisesCapacity ==
    [][(/\ last'.op \in {"push_back", "emplace_back"}
        /\ last'.res = "ok"
        /\ NeedsGrow(vec[Callee]))
       => vec'[Callee].capacity > vec[Callee].capacity]_vars

\* C4: in every reachable state of a Vector, capacity == 0 implies that storage is null
C4_ZeroCapacityHoldsNoStorage ==
    \A x \in Objs : (vec[x].alive /\ vec[x].capacity = 0) => vec[x].data = Null

\* C5: no operation writes a value into a slot without constructing it, destroys a slot
\* that is not live, or leaves a live element undestroyed
C5_ConstructedOnceDestroyedOnce ==
    last.faults = {}

\* C6: pop_back() on a Vector of size n >= 1 destroys the element at index n-1, leaves
\* size == n-1 and the elements [0, n-1) unchanged and in order, so that back() afterwards
\* is the former element n-2 (when n >= 2), whether or not the call shrinks the capacity
C6_PopBackRemovesLast ==
    [][(last'.op = "pop_back" /\ vec[Callee].mSize >= 1) =>
          LET n == vec[Callee].mSize
              old == Elems(heap, vec[Callee])
          IN  /\ last'.res = "ok"
              /\ Len(last'.destroyed) >= 1 /\ Head(last'.destroyed) = n - 1
              /\ vec'[Callee].mSize = n - 1
              /\ Elems(heap', vec'[Callee]) = SubSeq(old, 1, n - 1)
              /\ Load(heap', vec'[Callee].data, n - 1) \in {Raw, Junk}
              /\ (n >= 2 => BackOf(heap', vec'[Callee]) = old[n - 1])]_vars

\* a pop_back that shrank the capacity and left elements behind
C6_Witness ==
    /\ last.op = "pop_back" /\ last.res = "ok"
    /\ vec["a"].mSize >= 1
    /\ Len(last.destroyed) = vec["a"].mSize + 1

\* C7: pop_back() on a Vector with size == 0 fails with std::runtime_error and leaves
\* size, capacity and storage unchanged
C7_PopBackOnEmptyThrows ==
    [][(last'.op = "pop_back" /\ vec[Callee].mSize = 0) =>
          /\ last'.res = "runtime_error"
          /\ vec' = vec
          /\ heap' = heap
          /\ aborted' = aborted]_vars

\* a pop_back that threw on a Vector that holds storage (capacity-constructed, cleared
\* or popped empty)
C7_Witness ==
    /\ last.op = "pop_back" /\ last.res = "runtime_error"
    /\ vec["a"].alive /\ vec["a"].mSize = 0 /\ vec["a"].capacity > 0

\* C8: front() and back() fail with std::runtime_error exactly when size == 0; otherwise
\* front() returns the element at index 0 and back() the element at index size-1, and
\* neither changes the Vector
C8_FrontBack ==
    [][(last'.op \in {"front", "back"}) =>
          LET v == vec[Callee]
          IN  /\ (last'.res = "runtime_error") <=> (v.mSize = 0)
              /\ (v.mSize # 0) =>
                    /\ last'.res = "ok"
                    /\ last'.ret = <<heap[v.data].mem[IF last'.op = "front" THEN 1 ELSE v.mSize]>>
              /\ vec' = vec
              /\ heap' = heap]_vars

\* a back() that returned the last of several elements, which differs from the first
C8_Witness ==
    /\ last.op = "back" /\ last.res = "ok"
    /\ vec["a"].mSize >= 2
    /\ last.ret # <<heap[vec["a"].data].mem[1]>>

\* what C9 says of pop_back: it reallocates exactly when the size after removal is
\* < capacity/2, and then to capacity - capacity/2, which is smaller and still >= size
PopBackShrinks ==
    (last'.op = "pop_back" /\ last'.res = "ok") =>
        LET c == vec[Callee].capacity
            n == vec[Callee].mSize - 1
            c2 == vec'[Callee].capacity
        IN  /\ (vec'[Callee].data # vec[Callee].data) <=> (n < c \div 2)
            /\ (n < c \div 2) => (c2 = c - c \div 2 /\ c2 < c /\ c2 >= n)
            /\ ~(n < c \div 2) => c2 = c

\* no Vector's capacity is lower after the step than before it
CapacityKept == \A x \in Objs : (vec[x].alive /\ vec'[x].alive) => vec'[x].capacity >= vec[x].capacity

\* C9 as stated: ... no other operation (in particular clear()) reduces capacity
C9_OnlyPopBackReducesCapacity ==
    [][PopBackShrinks /\ (last'.op # "pop_back" => CapacityKept)]_vars

\* C9 as amended: besides pop_back, capacity goes down only in the source of a move
\* (to 0) and in the destination of an assignment (to the source's capacity)
C9_CapacityReductions ==
    [][/\ PopBackShrinks
       /\ (last'.op \notin {"pop_back", "Vector(&&)", "operator=(&&)", "operator=(const&)"}) => CapacityKept
       /\ (last'.op \in {"Vector(&&)", "operator=(&&)"} /\ last'.res = "ok" /\ last'.src # Callee) =>
             (vec'[last'.src].capacity = 0 /\ vec'[Callee].capacity = vec[last'.src].capacity)
       /\ (last'.op = "operator=(const&)" /\ last'.res = "ok") =>
             (vec'[Callee].capacity = vec[last'.src].capacity /\ vec'[last'.src] = vec[last'.src])]_vars

\* a pop_back that shrank an odd capacity (5 to 3) with an element left
C9_Witness ==
    /\ last.op = "pop_back" /\ last.res = "ok"
    /\ vec["a"].capacity = 3 /\ vec["a"].mSize = 1
    /\ last.destroyed = <<1, 0>>

\* the last call was a pop_back that emptied the Vector
Drained(x) == last.op = "pop_back" /\ last.res = "ok" /\ last.obj = x /\ vec[x].mSize = 0

\* C10: from any reachable non-empty Vector, pop_back() until size == 0 never fails, and a
\* subsequent push_back(v) succeeds leaving size() == 1 and front() == back() == v
C10_DrainThenPush ==
    [][/\ (last'.op = "pop_back" /\ vec[Callee].mSize >= 1) => last'.res = "ok"
       /\ (last'.op = "push_back" /\ Drained(Callee)) =>
             /\ last'.res = "ok"
             /\ vec'[Callee].mSize = 1
             /\ FrontOf(heap', vec'[Callee]) = last'.arg[1]
             /\ BackOf(heap', vec'[Callee]) = last'.arg[1]]_vars

\* C11: operator[](i) fails with std::invalid_argument exactly when i >= capacity, and
\* otherwise gives slot i (to read, or to store to); operator[](0) on a
\* default-constructed Vector fails
C11_IndexChecksCapacity ==
    [][/\ (last'.op \in {"operator[]", "operator[]="}) =>
             LET i == last'.arg[1]
                 v == vec[Callee]
             IN  /\ (last'.res = "invalid_argument") <=> (i >= v.capacity)
                 /\ (i < v.capacity) =>
                       /\ last'.res = "ok"
                       /\ last'.op = "operator[]" =>
                             (last'.ret = <<heap[v.data].mem[i + 1]>> /\ heap' = heap)
                       /\ last'.op = "operator[]=" =>
                             heap' = [heap EXCEPT ![v.data].mem[i + 1] = last'.arg[2]]
                 /\ vec' = vec
       /\ (last'.op = "Vector()") =>
             IndexOf(heap', vec'[Callee], 0) = [res |-> "invalid_argument", ret |-> <<>>]]_vars

\* operator[] gave a slot that holds no element (size <= i < capacity), and elsewhere
\* refused index 0 of a default-constructed Vector
C11_Witness ==
    /\ last.op = "operator[]"
    /\ \/ last.res = "ok" /\ last.arg[1] >= vec["a"].mSize /\ last.ret = <<Raw>>
       \/ last.res = "invalid_argument" /\ last.arg = <<0>> /\ vec["a"].data = Null

\* C12: constructing a Vector from a list of n values yields size == n,
\* capacity == max(10, n + n/2) (integer division) and element i equal to the i-th value
C12_ListCtorCapacity ==
    [][(last'.op = "Vector(list)") =>
          LET n == Len(last'.arg)
              v == vec'[Callee]
          IN  /\ v.mSize = n
              /\ v.capacity = (IF n + n \div 2 > 10 THEN n + n \div 2 ELSE 10)
              /\ Elems(heap', v) = last'.arg]_vars

\* the calls that change a Vector's contents
Mutators == {"push_back", "emplace_back", "push_back(list)", "pop_back", "clear", "operator[]="}

\* C13: after b2 is copy-constructed or copy-assigned from b1, b2 has b1's size, capacity
\* and elements in its own storage region (no two live Vectors ever share storage),
\* b2 == b1 holds, b1 is as it was, and any later mutation of one Vector (push_back,
\* pop_back, indexed write, clear) leaves the other's size and elements unchanged
C13_CopyIsIndependent ==
    [][/\ (last'.op \in {"Vector(const&)", "operator=(const&)"} /\ last'.res = "ok"
           /\ last'.src # Callee) =>
             LET b1 == vec[last'.src]
                 b2 == vec'[Callee]
             IN  /\ b2.mSize = b1.mSize
                 /\ b2.capacity = b1.capacity
                 /\ Elems(heap', b2) = Elems(heap, b1)
                 /\ b2.data # Null /\ b2.data # b1.data
                 /\ heap'[b2.data].st = "alloc"
                 /\ EqualsOf(heap', b2, vec'[last'.src])
                 /\ vec'[last'.src] = b1
                 /\ Elems(heap', b1) = Elems(heap, b1)
       /\ (vec'["a"].alive /\ vec'["b"].alive /\ vec'["a"].data # Null) =>
             vec'["a"].data # vec'["b"].data
       /\ (last'.op \in Mutators /\ vec[Other(Callee)].alive) =>
             /\ vec'[Other(Callee)] = vec[Other(Callee)]
             /\ Elems(heap', vec'[Other(Callee)]) = Elems(heap, vec[Other(Callee)])]_vars

\* "b", a copy of the non-empty "a", was written to by index and now differs from "a"
C13_Witness ==
    /\ last.op = "operator[]=" /\ last.res = "ok" /\ last.obj = "b"
    /\ vec["a"].alive /\ vec["a"].mSize >= 1
    /\ vec["b"].mSize = vec["a"].mSize /\ vec["b"].capacity = vec["a"].capacity
    /\ NotEqualsOf(heap, vec["b"], vec["a"])

\* C14: after move construction or move assignment from b1 the destination holds b1's
\* pre-move elements, size and capacity, and b1 is in the empty state (size 0,
\* capacity 0, storage null): b1.empty() is true and b1 is in the very state the default
\* constructor leaves a Vector in
C14_MoveTransfers ==
    [][/\ (last'.op \in {"Vector(&&)", "operator=(&&)"} /\ last'.res = "ok"
           /\ last'.src # Callee) =>
             LET b1 == vec[last'.src]
             IN  /\ vec'[Callee].mSize = b1.mSize
                 /\ vec'[Callee].capacity = b1.capacity
                 /\ vec'[Callee].data = b1.data
                 /\ Elems(heap', vec'[Callee]) = Elems(heap, b1)
                 /\ vec'[last'.src] = [alive |-> TRUE, mSize |-> 0, capacity |-> 0, data |-> Null]
                 /\ EmptyOf(vec'[last'.src])
       /\ (last'.op = "Vector()") =>
             vec'[Callee] = [alive |-> TRUE, mSize |-> 0, capacity |-> 0, data |-> Null]]_vars

\* a move assignment into a Vector that held elements, from a Vector that held elements
C14_Witness ==
    /\ last.op = "operator=(&&)" /\ last.res = "ok" /\ last.src # last.obj
    /\ last.destroyed # <<>>
    /\ vec[last.obj].mSize >= 1
    /\ vec[last.src].data = Null

\* what C15 says a == b is: the sizes are equal and so are the elements at every index
SameElements(h, a, b) ==
    /\ a.mSize = b.mSize
    /\ \A i \in 0..(a.mSize - 1) : Load(h, a.data, i) = Load(h, b.data, i)

\* C15: a == b is true exactly when a.size == b.size and a[i] equals b[i] for every i in
\* [0, size), whatever the two capacities; == is reflexive and symmetric, a Vector built
\* from the list another holds equals it, appending one element to either of two equal
\* Vectors makes them unequal, and a != b is the negation of a == b
C15_EqualsElementwise ==
    [][/\ \A x \in Objs, y \in Objs : (vec'[x].alive /\ vec'[y].alive) =>
             /\ EqualsOf(heap', vec'[x], vec'[y]) = SameElements(heap', vec'[x], vec'[y])
             /\ EqualsOf(heap', vec'[x], vec'[y]) = EqualsOf(heap', vec'[y], vec'[x])
             /\ EqualsOf(heap', vec'[x], vec'[x])
       /\ (last'.op = "operator==") =>
             /\ last'.res = "ok"
             /\ last'.ret = <<SameElements(heap, vec[Callee], vec[last'.src])>>
             /\ vec' = vec /\ heap' = heap
       /\ (last'.op = "operator!=") =>
             /\ last'.res = "ok"
             /\ last'.ret = <<~SameElements(heap, vec[Callee], vec[last'.src])>>
             /\ vec' = vec /\ heap' = heap
       /\ (last'.op = "Vector(list)" /\ vec[Other(Callee)].alive
           /\ Elems(heap, vec[Other(Callee)]) = last'.arg) =>
             EqualsOf(heap', vec'[Callee], vec'[Other(Callee)])
       /\ (last'.op = "push_back" /\ last'.res = "ok" /\ vec[Other(Callee)].alive
           /\ EqualsOf(heap, vec[Callee], vec[Other(Callee)])) =>
             /\ ~EqualsOf(heap', vec'[Callee], vec'[Other(Callee)])
             /\ ~EqualsOf(heap', vec'[Other(Callee)], vec'[Callee])]_vars

\* a == b gave true for two non-empty Vectors of different capacities
C15_Witness ==
    /\ last.op = "operator==" /\ last.ret = <<TRUE>>
    /\ last.obj # last.src
    /\ vec[last.obj].mSize >= 1
    /\ vec[last.obj].capacity # vec[last.src].capacity

\* C16: for any two reachable Vectors a and b, a + b returns a new Vector whose size is
\* a.size + b.size and whose elements are a's followed by b's, with size <= capacity,
\* and leaves a and b unchanged; when b is empty the result equals a
C16_PlusConcatenates ==
    [][(last'.op = "operator+") =>
          /\ last'.res = "ok"
          /\ LET a == vec[Callee]
                 b == vec[last'.src]
                 r == last'.ret[1]
             IN  /\ r.mSize = a.mSize + b.mSize
                 /\ r.elems = Elems(heap, a) \o Elems(heap, b)
                 /\ r.mSize <= r.capacity
                 /\ (b.mSize = 0) => (r.mSize = a.mSize /\ r.elems = Elems(heap, a))
          /\ vec' = vec
          /\ heap' = heap]_vars

\* C17: clear() destroys the live elements in index order and sets size to 0 while
\* leaving capacity and the storage region unchanged (no release, no reallocation);
\* afterwards empty() is true and the boolean conversion is false
C17_ClearKeepsStorage ==
    [][/\ (last'.op = "clear") =>
             LET v == vec[Callee]
                 v2 == vec'[Callee]
             IN  /\ last'.res = "ok"
                 /\ last'.destroyed = [k \in 1..v.mSize |-> k - 1]
                 /\ v2.mSize = 0
                 /\ v2.capacity = v.capacity
                 /\ v2.data = v.data
                 /\ \A r \in Regions : heap'[r].st = heap[r].st /\ heap'[r].cap = heap[r].cap
                 /\ \A i \in 0..(v.mSize - 1) : Load(heap', v2.data, i) \in {Raw, Junk}
                 /\ EmptyOf(v2)
                 /\ ~BoolOf(v2)
       /\ (last'.op = "empty") => last'.ret = <<vec[Callee].mSize = 0>>
       /\ (last'.op = "operator bool") => last'.ret = <<vec[Callee].mSize # 0>>]_vars

\* a clear() of several elements that left the capacity in place
C17_Witness ==
    /\ last.op = "clear" /\ last.res = "ok"
    /\ Len(last.destroyed) >= 2
    /\ vec["a"].mSize = 0 /\ vec["a"].capacity >= 2 /\ vec["a"].data # Null

\* C18: push_back(list) on a Vector of size s with a list of k values performs exactly one
\* reallocation, to capacity (s+k) + (s+k)/2, when s + k >= capacity and none otherwise;
\* afterwards size == s + k, the original s elements are unchanged and the k list values
\* follow in list order
C18_PushListGrowsOnce ==
    [][(last'.op = "push_back(list)" /\ last'.res = "ok") =>
          LET v == vec[Callee]
              v2 == vec'[Callee]
              n == v.mSize + Len(last'.arg)
          IN  /\ (n >= v.capacity) =>
                    /\ v2.capacity = n + n \div 2
                    /\ v2.data # v.data /\ v2.data # Null
                    /\ v.data # Null => heap'[v.data].st = "free"
                    /\ Cardinality({r \in Regions : heap'[r].st = "alloc"})
                          = Cardinality({r \in Regions : heap[r].st = "alloc"})
                            + (IF v.data = Null THEN 1 ELSE 0)
              /\ (n < v.capacity) =>
                    /\ v2.capacity = v.capacity
                    /\ v2.data = v.data
                    /\ \A r \in Regions : heap'[r].st = heap[r].st
              /\ v2.mSize = n
              /\ Elems(heap', v2) = Elems(heap, v) \o last'.arg]_vars

\* a push_back(list) of two values onto one element that reallocated to 3 + 3/2 slots,
\* relocating the element
C18_Witness ==
    /\ last.op = "push_back(list)" /\ last.res = "ok"
    /\ Len(last.arg) = 2 /\ last.destroyed = <<0>>
    /\ vec["a"].mSize = 3 /\ vec["a"].capacity = 4

ReturnsPointee ==
    /\ it' = it /\ vec' = vec /\ heap' = heap
    /\ PointsIntoRegion(heap, it) =>
          (last'.res = "ok" /\ last'.ret = <<heap[it.reg].mem[it.mPtr + 1]>>)

\* C20 as stated: dereferencing fails with std::runtime_error when the position equals
\* the end bound, and otherwise returns the element at the position, without moving
C20_DerefFailsAtEndOnly ==
    [][(last'.op = "operator*") =>
          /\ (it.mPtr = it.mEnd) => (last'.res = "runtime_error" /\ it' = it)
          /\ (it.mPtr # it.mEnd) => (last'.res # "runtime_error" /\ ReturnsPointee)]_vars

\* C20 as amended: dereferencing fails with std::runtime_error when the position equals
\* the end bound (also for begin() of an empty Vector) or lies one slot before the begin
\* bound, and otherwise returns the element at the position, without moving
C20_DerefFailsAtEndOrBeforeBegin ==
    [][(last'.op = "operator*") =>
          /\ (it.mPtr = it.mEnd \/ it.mPtr = it.mBegin - 1) =>
                (last'.res = "runtime_error" /\ it' = it /\ vec' = vec /\ heap' = heap)
          /\ (it.mPtr # it.mEnd /\ it.mPtr # it.mBegin - 1) =>
                (last'.res # "runtime_error" /\ ReturnsPointee)]_vars

\* a dereference refused one slot before the begin bound of a Vector that holds elements
C20_Witness ==
    /\ last.op = "operator*" /\ last.res = "runtime_error"
    /\ it.mPtr = it.mBegin - 1 /\ it.mEnd >= 1
    /\ vec["a"].data = it.reg /\ vec["a"].mSize = it.mEnd

\* C21: for an iterator at a dereferenceable position p (begin <= p < end) and any signed
\* n, advance(n) succeeds and leaves the position at p + n exactly when
\* begin <= p + n <= end, and otherwise fails with std::invalid_argument
C21_AdvanceWithinBounds ==
    [][(last'.op = "advance" /\ it.mBegin <= it.mPtr /\ it.mPtr < it.mEnd) =>
          LET n == last'.arg[1]
          IN  IF it.mBegin <= it.mPtr + n /\ it.mPtr + n <= it.mEnd
              THEN /\ last'.res = "ok"
                   /\ it' = [it EXCEPT !.mPtr = it.mPtr + n]
                   /\ last'.ret = <<it'>>
              ELSE last'.res = "invalid_argument"]_vars

\* an advance backwards that met the begin bound of a Vector's elements before the
\* distance was used up
C21_Witness ==
    /\ last.op = "advance" /\ last.res = "invalid_argument" /\ last.arg[1] < -1
    /\ it.reg # Null /\ it.mPtr = it.mBegin /\ it.mEnd >= 2
    /\ vec["a"].data = it.reg /\ vec["a"].mSize = it.mEnd
IndexedAccess == {"operator[]", "operator[]="}
EmptyContainerOps == {"pop_back", "front", "back"}
IterSteppers == {"++it", "it++", "--it", "it--", "it+n", "it+=n", "it-n", "it-=n"}
Thrown == {"invalid_argument", "runtime_error", "out_of_range"}

\* C23 as stated: out-of-range indexed access, pop_back/front/back on an empty Vector and
\* iterator overrun (increment, decrement, advance, offset operators) are signalled with
\* three pairwise distinct error kinds, the iterator overrun with std::out_of_range only
C23_ThreeDistinctKinds ==
    [][(last'.res \in Thrown) =>
          /\ (last'.op \in IndexedAccess) => last'.res = "invalid_argument"
          /\ (last'.op \in EmptyContainerOps) => last'.res = "runtime_error"
          /\ (last'.op \in IterSteppers \cup {"advance"}) => last'.res = "out_of_range"]_vars

\* C23 as amended: the three kinds are distinct for indexed access (std::invalid_argument),
\* the empty-container operations (std::runtime_error) and overrun through increment,
\* decrement and the offset operators (std::out_of_range); advance signals none of its
\* failures with std::out_of_range: an unmet distance is std::invalid_argument, the kind
\* of indexed access, and a call at the end bound or one slot before the begin bound is
\* std::runtime_error, the kind of the empty-container operations
C23_KindsPerOperation ==
    [][(last'.res \in Thrown) =>
          /\ (last'.op \in IndexedAccess) => last'.res = "invalid_argument"
          /\ (last'.op \in EmptyContainerOps) => last'.res = "runtime_error"
          /\ (last'.op \in IterSteppers) => last'.res = "out_of_range"
          /\ (last'.op = "advance") =>
                last'.res = (IF it.mPtr = it.mEnd \/ it.mPtr = it.mBegin - 1
                             THEN "runtime_error" ELSE "invalid_argument")]_vars

\* an advance forwards that met the end bound of a Vector's elements before the distance
\* was used up, signalled with the kind operator[] uses
C23_Witness ==
    /\ last.op = "advance" /\ last.res = "invalid_argument" /\ last.arg[1] > 0
    /\ it.reg # Null /\ it.mPtr = it.mEnd /\ it.mEnd >= 1
    /\ vec["a"].data = it.reg /\ vec["a"].mSize = it.mEnd
\* C24: for a Vector that is not modified during the walk, starting at begin() and
\* repeatedly dereferencing then incrementing while the iterator differs from end()
\* terminates after exactly size() steps, yields the elements 0..size-1 in index order and
\* signals no error (zero steps for an empty or default-constructed Vector)
C24_WalkYieldsElements ==
    [][(last'.op = "walk") =>
          /\ last'.res = "ok"
          /\ Len(last'.ret[1]) = vec[Callee].mSize
          /\ last'.ret[1] = Elems(heap, vec[Callee])
          /\ vec[Callee].data = Null => last'.ret[1] = <<>>
          /\ UNCHANGED <<vec, heap, it>>]_vars

\* a walk over a Vector of two elements that were pushed one by one yielded both
C24_Witness ==
    /\ last.op = "walk" /\ last.res = "ok"
    /\ vec["a"].mSize = 2 /\ hist["a"].pure /\ last.ret[1] = hist["a"].vals
\* the call of the step ran grow(), init_grow() or shrink() on a Vector that held storage:
\* the conditions of Vector.h l.455/472/515, l.492-494 and l.535 on the state before
Reallocates ==
    /\ Callee \in Objs /\ last'.res = "ok" /\ vec[Callee].data # Null
    /\ \/ last'.op \in {"push_back", "emplace_back"} /\ NeedsGrow(vec[Callee])
       \/ last'.op = "push_back(list)" /\ ListNeedsGrow(vec[Callee], Len(last'.arg))
       \/ last'.op = "pop_back" /\ vec[Callee].mSize - 1 < vec[Callee].capacity \div 2

\* the iterator was taken from the storage the Vector of the step's call holds
TakenFromCallee == Callee \in Objs /\ it.alive /\ it.reg # Null /\ it.reg = vec[Callee].data

\* C25: an iterator's position and bounds are fixed at creation and never re-fetched:
\* after a Vector operation that reallocates (push_back, emplace_back, push_back(list),
\* pop_back) every iterator obtained before points into the released region, and no
\* iterator operation detects this; an operation that does not reallocate leaves the
\* iterator's pointers in the Vector's current region
C25_IteratorsDangle ==
    [][/\ (Callee \in Objs) => it' = it
       /\ (TakenFromCallee /\ Reallocates) =>
             (heap'[it'.reg].st = "free" /\ vec'[Callee].data # it'.reg)
       /\ (TakenFromCallee /\ ~Reallocates /\ vec'[Callee].alive) =>
             (vec'[Callee].data = it'.reg /\ heap'[it'.reg].st = "alloc")
       /\ (Callee = "it" /\ it.alive /\ it.reg # Null /\ heap[it.reg].st = "free") =>
             /\ (last'.op \in {"++it", "it++"}) => (last'.res = "ok" <=> it.mPtr # it.mEnd)
             /\ (last'.op \in {"--it", "it--"}) => (last'.res = "ok" <=> it.mPtr # it.mBegin)
             /\ (last'.op = "operator*") =>
                   (last'.res = "runtime_error" <=> ~Dereferenceable(it))]_vars

\* an iterator taken from a Vector that a push_back then reallocated was incremented
\* without an error, while it points into the released region
C25_Witness ==
    /\ last.op = "++it" /\ last.res = "ok"
    /\ it.reg # Null /\ heap[it.reg].st = "free"
    /\ vec["a"].alive /\ vec["a"].data # it.reg /\ vec["a"].mSize > it.mEnd
\* C26: when grow() runs on a Vector that holds no storage (default-constructed or
\* moved-from), it allocates storage with the documented default capacity of 10
C26_GrowAllocatesDefaultCapacity ==
    [][(Callee \in Objs /\ last'.op \in {"push_back", "emplace_back"} /\ last'.res = "ok"
          /\ vec[Callee].data = Null) =>
          (vec'[Callee].data # Null /\ vec'[Callee].capacity = DefaultCapacity)]_vars
\* C27: each reallocation (grow, init_grow, shrink) leaves the size and the sequence of
\* live elements unchanged and in the same order; only the capacity and the storage
\* region change. Seen from the call that reallocates: the elements that are live before
\* and after it (all of them for the push operations, all but the last for pop_back) hold
\* the same values at the same indices, and the size changes only by what the call adds
\* or removes
C27_ReallocationKeepsElements ==
    [][Reallocates =>
          LET s == vec[Callee].mSize
              s2 == vec'[Callee].mSize
              kept == IF s2 < s THEN s2 ELSE s
          IN  /\ s2 = (CASE last'.op = "pop_back" -> s - 1
                         [] last'.op = "push_back(list)" -> s + Len(last'.arg)
                         [] OTHER -> s + 1)
              /\ \A i \in 0..(kept - 1) :
                    Load(heap', vec'[Callee].data, i) = Load(heap, vec[Callee].data, i)
              /\ vec'[Callee].data # vec[Callee].data]_vars
\* C28: within a reallocation the steps are ordered: the new region is allocated before
\* any element is relocated; each old element is destroyed only after its value has been
\* placed in the new region; the old region is released only after all size elements
\* have been relocated and destroyed; and the Vector adopts the new region and capacity
\* only after the release
C28_ReallocationOrder ==
    [][/\ Reallocates => last'.trace # <<>>
       /\ (last'.op \in {"push_back", "emplace_back", "push_back(list)", "pop_back"}
             /\ last'.trace # <<>>) =>
             LET t == last'.trace
                 old == vec[Callee].data
                 n == IF last'.op = "pop_back" THEN vec[Callee].mSize - 1 ELSE vec[Callee].mSize
             IN  /\ Len(t) = 2 * n + 3
                 /\ t[1].e = "new" /\ t[1].k # old
                 /\ \A i \in 0..(n - 1) :
                       \E a, b \in 2..(Len(t) - 2) :
                          a < b /\ t[a] = Step("place", i) /\ t[b] = Step("destroy", i)
                 /\ t[Len(t) - 1] = Step("delete", old)
                 /\ t[Len(t)] = Step("adopt", t[1].k)
                 /\ (last'.res = "ok") => vec'[Callee].data = t[1].k]_vars

\* a push_back has reallocated a Vector of one element: five steps, the element placed,
\* then destroyed, then the old region released, then the new one adopted
C28_Witness ==
    /\ last.op = "push_back" /\ last.res = "ok" /\ Len(last.trace) = 5
    /\ last.trace[2] = Step("place", 0) /\ last.trace[3] = Step("destroy", 0)
    /\ vec["a"].mSize = 2 /\ vec["a"].data = last.trace[5].k
\* C29: emplace_back(args) has the same effect on size, capacity and contents as
\* push_back of the value constructed from args (same growth trigger size >= capacity,
\* new element at index old size), and the reference it returns designates the new last
\* element, the one back() returns afterwards
C29_EmplaceBackLikePushBack ==
    [][(last'.op = "emplace_back" /\ last'.res = "ok") =>
          LET v == vec[Callee]
              v2 == vec'[Callee]
          IN  /\ \E J \in SUBSET Behind(v.mSize, v.capacity), junk \in BOOLEAN :
                    LET m == PushOf(Machine(Callee), last'.arg[1], FALSE, J, junk)
                    IN  v2 = m.v /\ heap' = m.h
              /\ v2.mSize = v.mSize + 1
              /\ (v2.data # v.data) <=> NeedsGrow(v)
              /\ ~NeedsGrow(v) => v2.capacity = v.capacity
              /\ (v.mSize < v2.capacity) => Load(heap', v2.data, v.mSize) = last'.arg[1]
              /\ last'.ret = <<BackOf(heap', v2)>>]_vars

\* an emplace_back on a full Vector of one element has grown it and returned the value
\* it was given, which is the Vector's last element
C29_Witness ==
    /\ last.op = "emplace_back" /\ last.res = "ok" /\ last.ret = last.arg
    /\ last.trace # <<>>
    /\ vec["a"].mSize = 2 /\ BackOf(heap, vec["a"]) = last.arg[1]
C31_AdvanceAtEndFails ==
    [][(last'.op = "advance" /\ it.mPtr = it.mEnd) =>
          (last'.res = "runtime_error" /\ it' = it /\ vec' = vec /\ heap' = heap)]_vars

\* an advance backwards by one slot refused at the end of a Vector of two elements
C31_Witness ==
    /\ last.op = "advance" /\ last.res = "runtime_error" /\ last.arg = <<-1>>
    /\ it.reg # Null /\ it.mPtr = it.mEnd /\ it.mEnd = 2
    /\ vec["a"].data = it.reg /\ vec["a"].mSize = it.mEnd
\* C32: when advance(n), operator+=(n) or operator-=(n) fails because the requested
\* distance cannot be fully honoured, the iterator is left at a deterministic position:
\* its position before the call or the bound at which the walk stopped (end for a forward
\* walk, begin for a backward walk), and never anywhere else. The code leaves it at the
\* bound, which is the position before the call when the walk started there
C32_FailureLeavesBound ==
    [][/\ (last'.op = "advance" /\ last'.res = "invalid_argument") =>
             /\ it' = [it EXCEPT !.mPtr = IF last'.arg[1] > 0 THEN it.mEnd ELSE it.mBegin]
             /\ it'.mPtr \in {it.mPtr, it.mEnd, it.mBegin}
       /\ (last'.op = "it+=n" /\ last'.res = "out_of_range") =>
             /\ it' = [it EXCEPT !.mPtr = it.mEnd]
             /\ it.mPtr + last'.arg[1] > it.mEnd
       /\ (last'.op = "it-=n" /\ last'.res = "out_of_range") =>
             /\ it' = [it EXCEPT !.mPtr = it.mBegin]
             /\ it.mPtr - last'.arg[1] < it.mBegin]_vars

\* it += 2 on an iterator over a Vector of two elements failed and left the iterator at
\* the end bound
C32_Witness ==
    /\ last.op = "it+=n" /\ last.res = "out_of_range" /\ last.arg = <<2>>
    /\ it.reg # Null /\ it.mPtr = it.mEnd /\ it.mEnd = 2
    /\ vec["a"].data = it.reg /\ vec["a"].mSize = it.mEnd
\* the step's call undoes the call before it: advance(-n) after an advance(n) that
\* succeeded, or it -= n after an it += n that succeeded, on an iterator that was at a
\* dereferenceable position p (begin <= p < end) before the first of the two
UndoesAdvance ==
    /\ last.op = "advance" /\ last.res = "ok"
    /\ last'.op = "advance" /\ last'.arg = <<-last.arg[1]>>
    /\ it.mBegin <= it.mPtr - last.arg[1] /\ it.mPtr - last.arg[1] < it.mEnd
UndoesPlusAssign ==
    /\ last.op = "it+=n" /\ last.res = "ok"
    /\ last'.op = "it-=n" /\ last'.arg = last.arg
    /\ it.mBegin <= it.mPtr - last.arg[1] /\ it.mPtr - last.arg[1] < it.mEnd

\* C33 as stated: for an iterator at a dereferenceable position p and any signed n with
\* begin <= p + n <= end, advance(n) followed by advance(-n) succeeds and returns the
\* iterator to p; likewise it += n followed by it -= n for every unsigned n with
\* p + n <= end
C33_RoundTrip ==
    [][/\ UndoesAdvance =>
             (last'.res = "ok" /\ it' = [it EXCEPT !.mPtr = it.mPtr - last.arg[1]])
       /\ UndoesPlusAssign =>
             (last'.res = "ok" /\ it' = [it EXCEPT !.mPtr = it.mPtr - last.arg[1]])]_vars

\* C33 as amended: advance(n) followed by advance(-n) returns to p when
\* begin <= p + n < end; when p + n = end the advance(-n) fails with std::runtime_error
\* and the iterator stays at end. it += n followed by it -= n returns to p for every
\* unsigned n with p + n <= end
C33_RoundTripShortOfEnd ==
    [][/\ (UndoesAdvance /\ it.mPtr # it.mEnd) =>
             (last'.res = "ok" /\ it' = [it EXCEPT !.mPtr = it.mPtr - last.arg[1]])
       /\ (UndoesAdvance /\ it.mPtr = it.mEnd) =>
             (last'.res = "runtime_error" /\ it' = it)
       /\ UndoesPlusAssign =>
             (last'.res = "ok" /\ it' = [it EXCEPT !.mPtr = it.mPtr - last.arg[1]])]_vars

\* it -= 2 has brought an iterator back from the end of a Vector of two elements to its
\* first element
C33_Witness ==
    /\ last.op = "it-=n" /\ last.res = "ok" /\ last.arg = <<2>>
    /\ it.reg # Null /\ it.mPtr = it.mBegin /\ it.mEnd = 2
    /\ vec["a"].data = it.reg /\ vec["a"].mSize = it.mEnd
\* the iterator i lies within its bounds
WithinBounds(i) == i.mBegin <= i.mPtr /\ i.mPtr <= i.mEnd

\* C34: for an iterator created by begin() or end(), after any sequence of iterator
\* operations (++, --, advance, +=, -=, +, -, copy), including ones that fail, its
\* position stays within [begin, end]; the one-before-begin position is never reached.
\* The same holds for the iterators the operations return (the copies of it++ and it--,
\* the results of it + n and it - n)
C34_StaysWithinBounds ==
    /\ it.alive => (WithinBounds(it) /\ it.mPtr # it.mBegin - 1)
    /\ (last.op \in IterSteppers \cup {"advance"}) =>
          \A k \in 1..Len(last.ret) : WithinBounds(last.ret[k])

\* an iterator over a Vector of two elements was refused a decrement at the begin bound,
\* where it stays
C34_Witness ==
    /\ last.op = "--it" /\ last.res = "out_of_range"
    /\ it.reg # Null /\ it.mPtr = it.mBegin /\ it.mEnd = 2
    /\ vec["a"].data = it.reg /\ vec["a"].mSize = it.mEnd
\* C35: every storage region a Vector allocates is released exactly once: copy assignment
\* and move assignment release the destination's previous region before adopting another,
\* for every destination state including size 0 with capacity > 0; destruction releases
\* the current region; no operation leaks a region or releases one twice. In the model:
\* no call overwrites the pointer to a region it has not released, every allocated region
\* is held by exactly one Vector, and a destructor leaves its region released
C35_RegionsReleasedOnce ==
    [][/\ ~last'.lost
       /\ \A r \in Regions :
             (heap'[r].st = "alloc") =>
                 Cardinality({x \in Objs : vec'[x].alive /\ vec'[x].data = r}) = 1
       /\ (last'.op \in {"operator=(const&)", "operator=(&&)"} /\ last'.res = "ok"
             /\ last'.obj # last'.src /\ vec[Callee].data # Null) =>
             heap'[vec[Callee].data].st = "free" \/ vec'[Callee].data = vec[Callee].data
       /\ (last'.op = "~Vector" /\ last'.res = "ok" /\ vec[Callee].data # Null) =>
             heap'[vec[Callee].data].st = "free"]_vars
\* C36: as long as the Vector has not reallocated since an iterator was created, every
\* dereference of that iterator that succeeds returns a slot holding a live element of
\* the Vector (index < current size), also after pop_back (without shrink) or clear()
\* has been called in between. An iterator of a Vector that has not reallocated points
\* into the region the Vector holds
C36_DerefReturnsLiveElement ==
    [][(last'.op = "operator*" /\ last'.res = "ok"
          /\ it.reg # Null /\ \E x \in Objs : vec[x].alive /\ vec[x].data = it.reg) =>
          \E x \in Objs :
             /\ vec[x].alive /\ vec[x].data = it.reg
             /\ 0 <= it.mPtr /\ it.mPtr < vec[x].mSize
             /\ last'.ret = <<Load(heap, vec[x].data, it.mPtr)>>]_vars
====
